---- MODULE Spec2Model ----
(***************************************************************************)
(* Azure-Blob-Inspector, src/client.py: the listing client, the filterable *)
(* collection, the streamed download of one blob and the thread-pool batch *)
(* of downloads, as state machines.                                        *)
(*                                                                         *)
(*   Spec          the driver: listing, filters, mode dispatch, the pool   *)
(*   FairSpec      Spec with fair scheduling of the main thread and of     *)
(*                 every unit of work                                      *)
(*   DownloadSpec  one call of AzureFile.Download, statement by statement  *)
(*   SearchSpec    AzureFileBase.Search applied to bounded inputs          *)
(*                                                                         *)
(* Strings that the code takes apart (names, queries) are sequences of     *)
(* one-character strings; paths are tuples of their components.            *)
(***************************************************************************)
EXTENDS Integers, Sequences, FiniteSets, TLC

VARIABLES
    args,      \* the parsed command line
    response,  \* number of <Blob> entries of the listing response
    env,       \* per listed blob: what its download's network and disk will do
    pc,        \* position of the main thread
    blobs,     \* AzureFileBase.data of the collection `blobs`
    current,   \* AzureFileBase._current of that collection
    unit,      \* per listed blob: the state of its unit of work
    threads,   \* ThreadPoolExecutor: number of worker threads spawned
    tasks,     \* rich Progress: the registered tasks and their fields
    disk,      \* the files written, path -> size in bytes
    stdout,    \* what has been printed
    dl,        \* DownloadSpec: the frame of one Download call
    srch       \* SearchSpec: collection, query, mode and result

vars == <<args, response, env, pc, blobs, current, unit, threads,
          tasks, disk, stdout, dl, srch>>

mainVars == <<args, response, env, pc, blobs, current, unit, threads,
              tasks, disk, stdout>>

-----------------------------------------------------------------------------
(* Bounds of the model *)

MaxBlobs == 3          \* listing sizes 0..MaxBlobs with every environment
WideBlobs == 12        \* size of the batch that saturates the pool
MaxFullChunks == 2     \* full chunks of a response body
MaxTail == 2           \* bytes of a body's last, partial chunk
MaxNameLen == 2        \* SearchSpec: length of a blob name
MaxQueryLen == 2       \* SearchSpec: length of a query
MaxData == 2           \* SearchSpec: descriptors of the collection

(* Program constants *)

ChunkSize == 1024      \* iter_content(chunk_size=1024)
AdvanceSize == 1024    \* block_write_callback(1024)
MaxWorkersOffByOne == 10 + 1
MaxWorkers == 10       \* ThreadPoolExecutor(max_workers=10)

output_dir == "./loot_new"
OtherDir == "./out"

Min(a, b) == IF a < b THEN a ELSE b

-----------------------------------------------------------------------------
(* AzureFile *)

\* Name.split('.')[-1] if len(Name.split('.')) > 1 else ""
RECURSIVE LastDot(_, _)
LastDot(name, i) ==
    IF i = 0 THEN 0
    ELSE IF name[i] = "." THEN i
    ELSE LastDot(name, i - 1)

Ext(name) ==
    LET k == LastDot(name, Len(name))
    IN  IF k = 0 THEN <<>> ELSE SubSeq(name, k + 1, Len(name))

\* urllib.parse.urlparse(Url).path of https://<account>.blob.core.windows.net/<container>/<name>
FilePath(container, name) == <<container, name>>

\* AzureFile.__init__ on one parsed <Blob> entry decorated by List
AzureFile(id, account, container, name) ==
    [id |-> id, Account |-> account, Container |-> container, Name |-> name,
     filepath |-> FilePath(container, name), ext |-> Ext(name)]

\* AzureFile.ToTable
FileToTable(f) == <<f.Account, f.Container, f.Name, f.ext>>

-----------------------------------------------------------------------------
(* AzureFile.Download, one statement per step.                             *)
(* A frame d holds the call's arguments, the response and the locals.      *)
(* resp = [fail, failAt, hasLen, body]:                                    *)
(*   fail "ConnectionError"      requests.get raises it                    *)
(*        "ReadTimeout"          requests.get raises it waiting for headers*)
(*        "ChunkedEncodingError" iter_content raises it after failAt chunks*)
(*        "OSError"              failAt = 0: makedirs/open raises it;      *)
(*                               failAt = k > 0: the k-th fd.write does    *)
(*   hasLen  the response carries a content-length header                  *)
(*   body    length of the response body in bytes                          *)

FailKinds == {"none", "ConnectionError", "ReadTimeout", "ChunkedEncodingError", "OSError"}

NoPath == <<>>

\* output_dir + "/" + self.Account + self.filepath
TargetPath(f, target) == <<output_dir, f.Account, f.filepath>>

DownloadCall(f, target, cbs, resp) ==
    [pc |-> "get", f |-> f, target |-> target, cbs |-> cbs, resp |-> resp,
     left |-> resp.body, chunk |-> 0, nchunks |-> 0,
     total |-> -1, sizeCalls |-> 0, advanced |-> 0,
     path |-> NoPath, written |-> 0, flushed |-> 0, exc |-> "none"]

Raise(d, e) == [d EXCEPT !.pc = "raised", !.exc = e]

\* resp = requests.get(self.Url, allow_redirects = True, stream = True)
StepGet(d) ==
    IF d.resp.fail \in {"ConnectionError", "ReadTimeout"}
    THEN Raise(d, d.resp.fail)
    ELSE [d EXCEPT !.pc = "header"]

\* if get_header_callback: get_header_callback(int(resp.headers.get("content-length")))
StepHeader(d) ==
    IF ~d.cbs THEN [d EXCEPT !.pc = "open"]
    ELSE IF ~d.resp.hasLen THEN Raise(d, "TypeError")   \* int(None)
    ELSE [d EXCEPT !.pc = "open", !.total = d.resp.body, !.sizeCalls = @ + 1]

\* target_path = ...; os.makedirs(...); with open(target_path, 'wb') as fd:
StepOpen(d) ==
    IF d.resp.fail = "OSError" /\ d.resp.failAt = 0
    THEN Raise(d, "OSError")
    ELSE [d EXCEPT !.pc = "iter", !.path = TargetPath(d.f, d.target), !.written = 0]

\* for chunk in resp.iter_content(chunk_size=1024):
StepIter(d) ==
    IF d.left = 0 THEN [d EXCEPT !.pc = "returned"]
    ELSE IF d.resp.fail = "ChunkedEncodingError" /\ d.resp.failAt = d.nchunks
    THEN Raise(d, "ChunkedEncodingError")
    ELSE [d EXCEPT !.pc = "callback", !.chunk = Min(ChunkSize, d.left),
                   !.left = @ - Min(ChunkSize, d.left), !.nchunks = @ + 1]

\* if block_write_callback: block_write_callback(1024)
StepCallback(d) ==
    IF d.cbs THEN [d EXCEPT !.pc = "write", !.advanced = @ + AdvanceSize]
    ELSE [d EXCEPT !.pc = "write"]

\* if chunk: fd.write(chunk); fd.flush()
StepWrite(d) ==
    IF d.resp.fail = "OSError" /\ d.resp.failAt = d.nchunks
    THEN Raise(d, "OSError")
    ELSE [d EXCEPT !.pc = "iter", !.written = @ + d.chunk, !.flushed = @ + d.chunk]

Ended(d) == d.pc \in {"returned", "raised"}

DownloadStep(d) ==
    CASE d.pc = "get"      -> StepGet(d)
      [] d.pc = "header"   -> StepHeader(d)
      [] d.pc = "open"     -> StepOpen(d)
      [] d.pc = "iter"     -> StepIter(d)
      [] d.pc = "callback" -> StepCallback(d)
      [] d.pc = "write"    -> StepWrite(d)
      [] OTHER             -> d

\* The whole call: the frame when Download returns or raises. (Each frame is
\* bound as the element of a singleton, so that it is computed once.)
RECURSIVE RunDownload(_)
RunDownload(d) ==
    IF Ended(d) THEN d
    ELSE CHOOSE r \in {RunDownload(DownloadStep(x)) : x \in {d}} : TRUE

Bodies == {c * ChunkSize + r : c \in 0..MaxFullChunks, r \in 0..MaxTail}

Responses ==
    [fail : FailKinds, failAt : 0..MaxFullChunks, hasLen : BOOLEAN, body : Bodies]

-----------------------------------------------------------------------------
(* AzureFileBase *)

Uppers == <<"A", "B", "C", "D", "E", "F", "G", "H", "I", "J", "K", "L", "M">>
Lowers == <<"a", "b", "c", "d", "e", "f", "g", "h", "i", "j", "k", "l", "m">>

\* str.lower, character by character
LowerChar(c) ==
    IF \E k \in 1..Len(Uppers) : Uppers[k] = c
    THEN Lowers[CHOOSE k \in 1..Len(Uppers) : Uppers[k] = c]
    ELSE c

UpperChar(c) ==
    IF \E k \in 1..Len(Lowers) : Lowers[k] = c
    THEN Uppers[CHOOSE k \in 1..Len(Lowers) : Lowers[k] = c]
    ELSE c

ToLower(s) == [k \in 1..Len(s) |-> LowerChar(s[k])]
ToUpper(s) == [k \in 1..Len(s) |-> UpperChar(s[k])]

\* sub in s
Contains(s, sub) ==
    \E k \in 0..(Len(s) - Len(sub)) : SubSeq(s, k + 1, k + Len(sub)) = sub

\* re.match('^.*(' + search + ').*$', s) for a pattern of plain letters: the
\* letters match themselves, case-sensitively (no re.IGNORECASE)
ReMatchWrapped(search, s) == Contains(s, search)

\* AzureFileBase.Search
SearchFn(search, regex, x) ==
    IF regex
    THEN ReMatchWrapped(search, ToLower(x.Name))
    ELSE Contains(ToLower(x.Name), ToLower(search))

Search(data, search, regex) ==
    LET fn(x) == SearchFn(search, regex, x) IN SelectSeq(data, fn)

\* AzureFileBase.IncludeExts / ExcludeExts
IncludeExts(data, exts) ==
    LET fn(x) == x.ext \in exts IN SelectSeq(data, fn)

ExcludeExts(data, exts) ==
    LET fn(x) == x.ext \notin exts IN SelectSeq(data, fn)

\* AzureFileBase.AllExtensions: the rows, in no order
AllExtensions(data) == {<<data[k].ext>> : k \in 1..Len(data)}

\* AzureFileBase.ToTable
ToTable(data) ==
    [headers |-> <<"Account", "Container", "File", "Extension">>,
     rows |-> [k \in 1..Len(data) |-> FileToTable(data[k])]]

-----------------------------------------------------------------------------
(* The variables of the other specifications, at rest *)

NoDownload == [pc |-> "idle"]
NoArgs == [account |-> "", container |-> ""]
NoSearch == [pc |-> "idle"]

MainAtRest ==
    /\ args = NoArgs
    /\ response = 0
    /\ env = <<>>
    /\ pc = "idle"
    /\ blobs = <<>>
    /\ current = 0
    /\ unit = <<>>
    /\ threads = 0
    /\ tasks = {}
    /\ disk = {}
    /\ stdout = {}

-----------------------------------------------------------------------------
(* DownloadSpec: one Download call *)

TheFile == AzureFile(1, "acct", "cont", <<"a", ".", "p">>)

DownloadInit ==
    /\ MainAtRest
    /\ srch = NoSearch
    /\ \E resp \in Responses, cbs \in BOOLEAN, target \in {output_dir, OtherDir} :
           dl = DownloadCall(TheFile, target, cbs, resp)

DlGet      == dl.pc = "get"      /\ dl' = StepGet(dl)      /\ UNCHANGED <<mainVars, srch>>
DlHeader   == dl.pc = "header"   /\ dl' = StepHeader(dl)   /\ UNCHANGED <<mainVars, srch>>
DlOpen     == dl.pc = "open"     /\ dl' = StepOpen(dl)     /\ UNCHANGED <<mainVars, srch>>
DlIter     == dl.pc = "iter"     /\ dl' = StepIter(dl)     /\ UNCHANGED <<mainVars, srch>>
DlCallback == dl.pc = "callback" /\ dl' = StepCallback(dl) /\ UNCHANGED <<mainVars, srch>>
DlWrite    == dl.pc = "write"    /\ dl' = StepWrite(dl)    /\ UNCHANGED <<mainVars, srch>>

DownloadNext == DlGet \/ DlHeader \/ DlOpen \/ DlIter \/ DlCallback \/ DlWrite

DownloadSpec == DownloadInit /\ [][DownloadNext]_vars

-----------------------------------------------------------------------------
(* SearchSpec: Search applied to a collection *)

SearchLetters == {"a", "A", "b"}

RECURSIVE SeqsUpTo(_, _)
SeqsUpTo(S, n) ==
    IF n = 0 THEN {<<>>}
    ELSE LET shorter == SeqsUpTo(S, n - 1)
         IN  shorter \cup {Append(s, x) : s \in shorter, x \in S}

SearchNames == SeqsUpTo(SearchLetters, MaxNameLen) \ {<<>>}
SearchQueries == SeqsUpTo(SearchLetters, MaxQueryLen) \ {<<>>}
SearchData ==
    {[k \in 1..Len(ns) |-> AzureFile(k, "acct", "cont", ns[k])] :
        ns \in SeqsUpTo(SearchNames, MaxData)}

SearchInit ==
    /\ MainAtRest
    /\ dl = NoDownload
    /\ \E data \in SearchData, q \in SearchQueries, regex \in BOOLEAN :
           srch = [pc |-> "call", data |-> data, search |-> q, regex |-> regex,
                   result |-> <<>>]

\* blobs.Search(args.search, regex = args.regex)
DoSearch ==
    /\ srch.pc = "call"
    /\ srch' = [srch EXCEPT !.pc = "done",
                            !.result = Search(srch.data, srch.search, srch.regex)]
    /\ UNCHANGED <<mainVars, dl>>

SearchNext == DoSearch

SearchSpec == SearchInit /\ [][SearchNext]_vars

-----------------------------------------------------------------------------
(* The driver (__main__), AzureClient.List, DownloadThreaded and the pool *)

Letters == Lowers

\* The listing's k-th blob name: distinct names, with and without extension
NameOf(k) ==
    LET c == Letters[((k - 1) % Len(Letters)) + 1]
        stem == IF k % 2 = 0 THEN <<UpperChar(c)>> ELSE <<c>>
        more == IF k > Len(Letters) THEN <<"z">> ELSE <<>>
    IN  CASE k % 3 = 1 -> stem \o more \o <<".", "p">>
          [] k % 3 = 2 -> stem \o more
          [] OTHER     -> stem \o more \o <<".", "t", ".", "q">>

Good == [fail |-> "none", failAt |-> 0, hasLen |-> TRUE, body |-> ChunkSize + 1]

\* The environments of a small batch: a clean transfer, a response without
\* content-length, and each failure kind striking a two-chunk body
SpecResponses ==
    {Good, [Good EXCEPT !.hasLen = FALSE]}
    \cup {[Good EXCEPT !.fail = k, !.failAt = 1] : k \in FailKinds \ {"none"}}

\* The environment of the wide batch: the kinds in turn
WidePattern ==
    <<Good,
      [Good EXCEPT !.fail = "ConnectionError"],
      [Good EXCEPT !.fail = "OSError", !.failAt = 1],
      [Good EXCEPT !.hasLen = FALSE],
      [Good EXCEPT !.fail = "ReadTimeout"]>>

Plain ==
    [account |-> "acct", container |-> "cont", exclude |-> {}, include |-> {},
     download |-> TRUE, exts |-> FALSE, output |-> output_dir, regex |-> FALSE,
     search |-> <<>>]

\* args.exclude / args.include are None (here {}) when the option is absent
CommandLines ==
    {[Plain EXCEPT !.exclude = x, !.include = i, !.download = d, !.exts = e,
                   !.output = o, !.regex = r, !.search = q] :
        x \in {{}, {<<"p">>}}, i \in {{}, {<<"p">>, <<>>}},
        d \in BOOLEAN, e \in BOOLEAN, o \in {output_dir, OtherDir},
        r \in BOOLEAN, q \in {<<>>, <<"a">>, <<"B">>}}

NoUnit == [pc |-> "none", exc |-> "none"]

Start(a, n, e) ==
    /\ args = a
    /\ response = n
    /\ env = e
    /\ pc = "list"
    /\ blobs = <<>>
    /\ current = 0
    /\ unit = [k \in 1..n |-> NoUnit]
    /\ threads = 0
    /\ tasks = {}
    /\ disk = {}
    /\ stdout = {}
    /\ dl = NoDownload
    /\ srch = NoSearch

\* any command line over a listing whose transfers all succeed
QuietInit ==
    \E a \in CommandLines, n \in 0..MaxBlobs : Start(a, n, [k \in 1..n |-> Good])

\* a plain download of a small listing in any environment
SmallInit ==
    \E o \in {output_dir, OtherDir}, n \in 0..MaxBlobs :
        \E e \in [1..n -> SpecResponses] : Start([Plain EXCEPT !.output = o], n, e)

\* a plain download of more blobs than the pool has workers
WideInit ==
    Start(Plain, WideBlobs,
          [k \in 1..WideBlobs |-> WidePattern[((k - 1) % Len(WidePattern)) + 1]])

Init == QuietInit \/ SmallInit \/ WideInit

\* AzureClient.List. xmltodict.parse gives None for an empty <Blobs/>, a dict
\* for a single <Blob> and a list only for two or more: None["Blob"] raises
\* TypeError, and iterating a dict yields its keys, whose item assignment
\* b["Account"] = ... raises TypeError
List ==
    /\ pc = "list"
    /\ IF response < 2
       THEN pc' = "crashed" /\ UNCHANGED blobs
       ELSE /\ blobs' = [k \in 1..response |->
                            AzureFile(k, args.account, args.container, NameOf(k))]
            /\ pc' = "filter"
    /\ UNCHANGED <<args, response, env, current, unit, threads, tasks,
                   disk, stdout, dl, srch>>

Filtered(data) ==
    LET byExt == IF args.exclude # {} THEN ExcludeExts(data, args.exclude)
                 ELSE IF args.include # {} THEN IncludeExts(data, args.include)
                 ELSE data
    IN  IF args.search # <<>> THEN Search(byExt, args.search, args.regex)
        ELSE byExt

\* lines 181-186, 190, 193: the filters and the choice of the mode
Filter ==
    /\ pc = "filter"
    /\ blobs' = Filtered(blobs)
    /\ current' = 0
    /\ pc' = IF args.download THEN "download"
             ELSE IF args.exts THEN "exts" ELSE "table"
    /\ UNCHANGED <<args, response, env, unit, threads, tasks, disk,
                   stdout, dl, srch>>

\* print(tabulate(blobs.AllExtensions(), headers=["Extensions"]))
PrintExtensions ==
    /\ pc = "exts"
    /\ stdout' = stdout \cup
          {[kind |-> "table", headers |-> <<"Extensions">>,
            rows |-> AllExtensions(blobs),
            nrows |-> Cardinality(AllExtensions(blobs))]}
    /\ pc' = "done"
    /\ UNCHANGED <<args, response, env, blobs, current, unit, threads,
                   tasks, disk, dl, srch>>

\* headers, data = blobs.ToTable(); print(tabulate(data, headers=headers))
PrintTable ==
    /\ pc = "table"
    /\ stdout' = stdout \cup
          {[kind |-> "table", headers |-> ToTable(blobs).headers,
            rows |-> ToTable(blobs).rows,
            nrows |-> Len(ToTable(blobs).rows)]}
    /\ pc' = "done"
    /\ UNCHANGED <<args, response, env, blobs, current, unit, threads,
                   tasks, disk, dl, srch>>

Ids == DOMAIN unit
Running == {k \in Ids : unit[k].pc = "downloading"}
Queued == {k \in Ids : unit[k].pc = "queued"}
Finished == {k \in Ids : unit[k].pc \in {"returned", "raised"}}
Submitted == {blobs[k].id : k \in 1..current}

\* for f in blobs: executor.submit(DownloadThreaded, f, progress)
\* __next__ reads data[_current]; submit queues the work item and starts a
\* worker thread while fewer than max_workers exist
Submit ==
    /\ pc = "download"
    /\ current < Len(blobs)
    /\ current' = current + 1
    /\ unit' = [unit EXCEPT ![blobs[current + 1].id].pc = "queued"]
    /\ threads' = IF threads < MaxWorkers THEN threads + 1 ELSE threads
    /\ UNCHANGED <<args, response, env, pc, blobs, tasks, disk, stdout, dl, srch>>

\* ExecutorExit as shutdown(wait=False) would leave the with block
ExecutorExitNoWait ==
    /\ pc = "download"
    /\ current = Len(blobs)
    /\ pc' = "done"
    /\ UNCHANGED <<args, response, env, blobs, current, unit, threads,
                   tasks, disk, stdout, dl, srch>>

\* the end of the for loop and of the with block: ThreadPoolExecutor.__exit__
\* is shutdown(wait=True), which joins every worker after the queue is empty
ExecutorExit ==
    /\ pc = "download"
    /\ current = Len(blobs)
    /\ Queued = {} /\ Running = {}
    /\ pc' = "done"
    /\ UNCHANGED <<args, response, env, blobs, current, unit, threads,
                   tasks, disk, stdout, dl, srch>>

FileOf(k) == blobs[CHOOSE j \in 1..Len(blobs) : blobs[j].id = k]

\* A worker takes the oldest queued work item and runs DownloadThreaded up to
\* the request: task_id = progress.add_task(...), then f.Download(client,
\* get_header_callback=..., block_write_callback=...) is entered with target
\* left to its default and requests.get is issued
UnitStart(k) ==
    /\ unit[k].pc = "queued"
    /\ \A j \in Queued : k <= j
    /\ Cardinality(Running) < threads
    /\ unit' = [unit EXCEPT ![k].pc = "downloading"]
    /\ tasks' = tasks \cup {[id |-> k, total |-> -1, completed |-> 0]}
    /\ UNCHANGED <<args, response, env, pc, blobs, current, threads,
                   disk, stdout, dl, srch>>

\* except requests.exceptions.ConnectionError
Caught(exc) == exc = "ConnectionError"

\* str(e) of the ConnectionError requests.get raises names the host and the
\* path of the URL
ErrorLine(f) ==
    [kind |-> "error", text |-> <<"Error: ", f.Account, f.filepath>>]

WriteFile(files, path, size) ==
    {x \in files : x.path # path} \cup {[path |-> path, size |-> size]}

\* The rest of DownloadThreaded: Download runs to its return or raise with
\* the callbacks updating the task, the except clause, remove_task; the
\* worker thread is then free again
DownloadEnd(k) ==
    /\ unit[k].pc = "downloading"
    /\ LET d == RunDownload(DownloadCall(FileOf(k), output_dir, TRUE, env[k]))
           updated == [id |-> k, total |-> d.total, completed |-> d.advanced]
           escapes == d.pc = "raised" /\ ~Caught(d.exc)
       IN  /\ disk' = IF d.path = NoPath THEN disk
                      ELSE WriteFile(disk, d.path, d.written)
           /\ stdout' = IF d.pc = "raised" /\ Caught(d.exc)
                        THEN stdout \cup {ErrorLine(FileOf(k))} ELSE stdout
           /\ tasks' = IF escapes
                       THEN {t \in tasks : t.id # k} \cup {updated}
                       ELSE {t \in tasks : t.id # k}
           /\ unit' = [unit EXCEPT ![k] =
                          [pc |-> IF escapes THEN "raised" ELSE "returned",
                           exc |-> d.exc]]
    /\ UNCHANGED <<args, response, env, pc, blobs, current, threads, dl, srch>>

Main == List \/ Filter \/ PrintExtensions \/ PrintTable \/ Submit \/ ExecutorExit

Worker(k) == UnitStart(k) \/ DownloadEnd(k)

Workers == \E k \in Ids : Worker(k)

Next == Main \/ Workers

Spec == Init /\ [][Next]_vars

FairSpec == Spec /\ WF_vars(Main) /\ WF_vars(Workers)

-----------------------------------------------------------------------------
(* The claims *)

Scheduled == {blobs[j].id : j \in 1..Len(blobs)}
BatchComplete == args.download /\ pc = "done"
HasFile(files, f, size) ==
    \E x \in files : x.path[2] = f.Account /\ x.path[3] = f.filepath /\ x.size = size

\* C1: in every reachable state of the download batch, for any number of
\* scheduled descriptors, at most 10 downloads have started and not yet ended.
C1_PoolBound == Cardinality(Running) <= 10

\* C1's case: ten transfers in flight while further work items wait in the queue
C1_Witness == Cardinality(Running) = 10 /\ Queued # {}

\* C2: whatever items fail with a connection error, a timeout or a write
\* failure, the batch never leaves its normal path once it has started, and
\* when it ends every scheduled item has been started and has run to its end
\* and every item the environment did not fail has its whole file on disk.
C2_FailureIsolation ==
    /\ pc = "crashed" => current = 0 /\ blobs = <<>>
    /\ BatchComplete =>
          \A j \in 1..Len(blobs) :
              /\ blobs[j].id \in Finished
              /\ env[blobs[j].id].fail = "none"
                    => HasFile(disk, blobs[j], env[blobs[j].id].body)

\* C3: the download phase is complete only when every scheduled unit of work
\* has been submitted and has ended, and under fair scheduling a download
\* phase that has begun eventually completes.
C3_Drains ==
    /\ [](BatchComplete => current = Len(blobs) /\ Submitted \subseteq Finished)
    /\ (pc = "download") ~> BatchComplete

\* C3's case: a batch that is complete with units that returned and units
\* whose exception escaped
C3_Witness ==
    /\ BatchComplete
    /\ \E k \in Scheduled : unit[k].pc = "raised"
    /\ \E k \in Scheduled : unit[k].pc = "returned"

\* C4: a unit's progress indicator is registered while its download runs and
\* is removed once the unit has ended, however it ended, so that no indicator
\* remains when the batch is complete.
C4_ProgressLifecycle ==
    /\ \A k \in Running : \E t \in tasks : t.id = k
    /\ \A k \in Finished : ~ \E t \in tasks : t.id = k
    /\ BatchComplete => tasks = {}

\* C5: with callbacks given, a download that returns for a response carrying
\* a content-length has invoked the size callback exactly once with that
\* total; for a response without content-length the size callback is never
\* invoked, no error arises from the missing header, and unless the network
\* or the disk fails the body is written whole and the download returns.
C5_SizeCallback ==
    (dl.pc # "idle" /\ dl.cbs) =>
        /\ dl.sizeCalls <= 1
        /\ (dl.resp.hasLen /\ dl.pc = "returned")
              => dl.sizeCalls = 1 /\ dl.total = dl.resp.body
        /\ ~dl.resp.hasLen =>
              /\ dl.sizeCalls = 0
              /\ dl.exc # "TypeError"
              /\ (Ended(dl) /\ dl.resp.fail = "none")
                    => dl.pc = "returned" /\ dl.written = dl.resp.body

\* C6: every file a download run writes lies at outputRoot/account/localPath
\* for the output root given with --output: nothing is written elsewhere, and
\* every unit that returned without error has its file there.
C6_OutputRoot ==
    /\ \A x \in disk : x.path[1] = args.output
    /\ \A j \in 1..Len(blobs) :
          (unit[blobs[j].id] = [pc |-> "returned", exc |-> "none"])
             => \E x \in disk :
                   x.path = <<args.output, blobs[j].Account, blobs[j].filepath>>

\* C7: a listing response with zero blob entries never raises; the run
\* completes in each mode with an empty collection, tables without rows and no
\* unit of work scheduled.
C7_EmptyListing ==
    response = 0 =>
        /\ pc # "crashed"
        /\ blobs = <<>> /\ current = 0
        /\ \A l \in stdout : l.kind = "table" /\ l.nrows = 0

\* C8: every unit whose download failed with a connection error, a timeout,
\* a broken stream or a write failure has printed exactly one error line
\* naming the account and the path of its object.
C8_FailureReported ==
    \A j \in 1..Len(blobs) :
        (/\ blobs[j].id \in Finished
         /\ unit[blobs[j].id].exc \in FailKinds \ {"none"})
           => Cardinality({l \in stdout : l = ErrorLine(blobs[j])}) = 1

\* C9: in both modes Search returns the same descriptors for a query of plain
\* letters as for the same query upper-cased and lower-cased.
C9_SearchCaseInsensitive ==
    srch.pc = "done" =>
        /\ srch.result = Search(srch.data, ToUpper(srch.search), srch.regex)
        /\ srch.result = Search(srch.data, ToLower(srch.search), srch.regex)

\* C10: in every state of one download with callbacks the bytes reported
\* through the byte callback never exceed the bytes written and flushed to the
\* file; when the download returns the two are equal, and equal to the
\* announced total when one was announced.
C10_ProgressAccurate ==
    (dl.pc # "idle" /\ dl.cbs) =>
        /\ dl.advanced <= dl.flushed
        /\ dl.pc = "returned" =>
              /\ dl.advanced = dl.written
              /\ dl.sizeCalls = 1 => dl.advanced = dl.total

====
